---- MODULE Spec2Model ----
(***************************************************************************)
(* The premium savings estimator of src/src/App.tsx: the form state        *)
(* `values`, the change handlers of the six inputs, and the calculation    *)
(* the component performs on every render (lines 32-44).                   *)
(***************************************************************************)
EXTENDS Integers, Sequences, FiniteSets, TLC

VARIABLES values, premiumText, breakdown, pc

vars == <<values, premiumText, breakdown, pc>>

(***************************************************************************)
(* IEEE-754 binary64 arithmetic.  The premium calculation is carried out   *)
(* in JavaScript numbers; TLC's integers are 32 bits wide, so a 53-bit     *)
(* significand is held as a little-endian sequence of 14-bit limbs.        *)
(***************************************************************************)
LIMB_BITS == 14
BASE == 16384
MANT_BITS == 53

RECURSIVE Pow2(_)
Pow2(n) == IF n = 0 THEN 1 ELSE 2 * Pow2(n - 1)

RECURSIVE BitLenInt(_)
BitLenInt(n) == IF n = 0 THEN 0 ELSE 1 + BitLenInt(n \div 2)

Limb(a, i) == IF 1 <= i /\ i <= Len(a) THEN a[i] ELSE 0

RECURSIVE BNorm(_)
BNorm(a) == IF Len(a) = 0 THEN <<>>
            ELSE IF a[Len(a)] = 0 THEN BNorm(SubSeq(a, 1, Len(a) - 1)) ELSE a

RECURSIVE BFromInt(_)
BFromInt(n) == IF n = 0 THEN <<>> ELSE <<n % BASE>> \o BFromInt(n \div BASE)

RECURSIVE BToInt(_)
BToInt(a) == IF Len(a) = 0 THEN 0 ELSE Head(a) + BASE * BToInt(Tail(a))

\* propagate carries through columns that may exceed one limb
RECURSIVE BCarryFrom(_, _, _)
BCarryFrom(cols, i, c) ==
    IF i > Len(cols) THEN BFromInt(c)
    ELSE LET s == cols[i] + c
         IN  <<s % BASE>> \o BCarryFrom(cols, i + 1, s \div BASE)
BCarry(cols) == BNorm(BCarryFrom(cols, 1, 0))

BAdd(a, b) ==
    BCarry([i \in 1..(IF Len(a) > Len(b) THEN Len(a) ELSE Len(b)) |-> Limb(a, i) + Limb(b, i)])

\* a - b for a >= b
RECURSIVE BSubFrom(_, _, _, _)
BSubFrom(a, b, i, c) ==
    IF i > Len(a) THEN <<>>
    ELSE LET s == a[i] - Limb(b, i) - c
         IN  IF s < 0 THEN <<s + BASE>> \o BSubFrom(a, b, i + 1, 1)
                      ELSE <<s>> \o BSubFrom(a, b, i + 1, 0)
BSub(a, b) == BNorm(BSubFrom(a, b, 1, 0))

RECURSIVE BCmpAt(_, _, _)
BCmpAt(a, b, i) ==
    IF i = 0 THEN 0
    ELSE IF a[i] < b[i] THEN -1
    ELSE IF a[i] > b[i] THEN 1
    ELSE BCmpAt(a, b, i - 1)
BCmp(a, b) == IF Len(a) < Len(b) THEN -1
              ELSE IF Len(a) > Len(b) THEN 1
              ELSE BCmpAt(a, b, Len(a))

\* a * k for 0 <= k <= BASE
BMulSmall(a, k) == BCarry([i \in 1..Len(a) |-> a[i] * k])

\* a * b for a of at most four limbs (every column sum stays below 2^31)
BMul(a, b) ==
    IF Len(a) = 0 \/ Len(b) = 0 THEN <<>>
    ELSE BCarry([k \in 1..(Len(a) + Len(b) - 1) |->
                    Limb(a, 1) * Limb(b, k) + Limb(a, 2) * Limb(b, k - 1)
                  + Limb(a, 3) * Limb(b, k - 2) + Limb(a, 4) * Limb(b, k - 3)])

\* floor(a / k) for 1 <= k <= BASE
RECURSIVE BDivSmallFrom(_, _, _, _)
BDivSmallFrom(a, k, i, r) ==
    IF i = 0 THEN <<>>
    ELSE LET s == r * BASE + a[i]
         IN  BDivSmallFrom(a, k, i - 1, s % k) \o <<s \div k>>
BDivSmall(a, k) == BNorm(BDivSmallFrom(a, k, Len(a), 0))

BShl(a, n) == IF Len(a) = 0 THEN <<>>
              ELSE [i \in 1..(n \div LIMB_BITS) |-> 0] \o BMulSmall(a, Pow2(n % LIMB_BITS))
BShr(a, n) == IF n \div LIMB_BITS >= Len(a) THEN <<>>
              ELSE BDivSmall(SubSeq(a, n \div LIMB_BITS + 1, Len(a)), Pow2(n % LIMB_BITS))
BBitLen(a) == IF Len(a) = 0 THEN 0 ELSE LIMB_BITS * (Len(a) - 1) + BitLenInt(a[Len(a)])
BIsOdd(a) == Len(a) > 0 /\ a[1] % 2 = 1
\* a mod 2^n, given q = floor(a / 2^n)
BLowBits(a, q, n) == BSub(a, BShl(q, n))

\* one base-BASE digit of long division (Knuth, algorithm D): for r < y and
\* the top limb of y at least BASE/2, the digit floor(r * BASE / y) and the
\* remainder; the estimate from the leading limbs is at most 2 too large
RECURSIVE DivCorrect(_, _, _)
DivCorrect(qhat, rb, y) ==
    IF BCmp(BMulSmall(y, qhat), rb) > 0 THEN DivCorrect(qhat - 1, rb, y) ELSE qhat

\* the estimate of the digit of rb / y from the leading limbs, at most BASE - 1
DivEstimate(top, lead) == IF top \div lead > BASE - 1 THEN BASE - 1 ELSE top \div lead
\* the digit d and the remainder it leaves
DivRemainder(rb, y, d) == [d |-> d, r |-> BSub(rb, BMulSmall(y, d))]
\* the digit of rb / y for rb = r * BASE
DivDigitOf(rb, y) ==
    DivRemainder(rb, y,
        DivCorrect(DivEstimate(Limb(rb, Len(y) + 1) * BASE + Limb(rb, Len(y)), y[Len(y)]),
                   rb, y))
DivDigit(r, y) == DivDigitOf(IF Len(r) = 0 THEN <<>> ELSE <<0>> \o r, y)

\* the quotient q with the digit dd.d appended, and the remainder dd.r
DivPush(q, dd) ==
    [q |-> IF Len(q) = 0 /\ dd.d = 0 THEN <<>> ELSE <<dd.d>> \o q, r |-> dd.r]

\* k further digits of the quotient: st.q * BASE^k + floor(st.r * BASE^k / y)
RECURSIVE DivDigits(_, _, _)
DivDigits(st, y, k) ==
    IF k = 0 THEN st ELSE DivDigits(DivPush(st.q, DivDigit(st.r, y)), y, k - 1)

(* A number is (-1)^s * m * 2^e with m = <<>> (zero) or 2^52 <= m < 2^53.   *)
(* Subnormals, infinities and NaN cannot arise from the inputs modelled.   *)
FZero == [s |-> 0, m |-> <<>>, e |-> 0]

\* the binary64 nearest to (-1)^s * n * 2^e, ties to even
\* q rounded up to 2^53 is renormalised
Renormalise(s, q, e) ==
    IF BBitLen(q) > MANT_BITS THEN [s |-> s, m |-> BShr(q, 1), e |-> e + 1]
    ELSE [s |-> s, m |-> q, e |-> e]
\* c compares the bits dropped with one half: up when above, or on a tie when
\* q is odd
RoundsUp(c, q) == c > 0 \/ (c = 0 /\ BIsOdd(q))
\* n with its low d bits dropped, q = floor(n / 2^d) being given
RoundQuotient(s, n, e, d, q) ==
    Renormalise(s,
                IF RoundsUp(BCmp(BLowBits(n, q, d), BShl(<<1>>, d - 1)), q)
                THEN BAdd(q, <<1>>) ELSE q,
                e + d)
\* n has d bits more than a significand holds
RoundBits(s, n, e, d) ==
    IF d <= 0 THEN [s |-> s, m |-> BShl(n, -d), e |-> e + d]
    ELSE RoundQuotient(s, n, e, d, BShr(n, d))
RoundNearestEven(s, n, e) ==
    IF Len(n) = 0 THEN FZero ELSE RoundBits(s, n, e, BBitLen(n) - MANT_BITS)

\* an integer as a number (exact below 2^53)
FromInt(n) == RoundNearestEven(IF n < 0 THEN 1 ELSE 0, BFromInt(IF n < 0 THEN -n ELSE n), 0)

\* a * b
FMul(a, b) == RoundNearestEven((a.s + b.s) % 2, BMul(a.m, b.m), a.e + b.e)

\* a / b for nonzero a, b: both significands are shifted left 3 bits so that
\* the divisor's top limb is at least BASE/2; four digits after the leading
\* bit give floor(a.m * 2^56 / b.m), and a sticky bit records the remainder
\* the leading bit of x / y, for x and y of equal bit length
DivLeadingBit(x, y) ==
    IF BCmp(x, y) >= 0 THEN [q |-> <<1>>, r |-> BSub(x, y)] ELSE [q |-> <<>>, r |-> x]
\* the quotient followed by the sticky bit
DivSticky(st) == BAdd(BMulSmall(st.q, 2), IF Len(st.r) = 0 THEN <<>> ELSE <<1>>)
FDivScaled(s, x, y, e) ==
    RoundNearestEven(s, DivSticky(DivDigits(DivLeadingBit(x, y), y, 4)), e)
FDiv(a, b) ==
    FDivScaled((a.s + b.s) % 2, BMulSmall(a.m, 8), BMulSmall(b.m, 8), a.e - b.e - 57)

\* -1, 0, 1 as a < b, a = b, a > b
FCmpMagnitude(a, b) ==
    IF a.e < b.e THEN -1 ELSE IF a.e > b.e THEN 1 ELSE BCmp(a.m, b.m)
FCmp(a, b) ==
    IF Len(a.m) = 0 /\ Len(b.m) = 0 THEN 0
    ELSE IF Len(a.m) = 0 THEN (IF b.s = 1 THEN 1 ELSE -1)
    ELSE IF Len(b.m) = 0 THEN (IF a.s = 1 THEN -1 ELSE 1)
    ELSE IF a.s # b.s THEN (IF a.s = 1 THEN -1 ELSE 1)
    ELSE (IF a.s = 1 THEN -1 ELSE 1) * FCmpMagnitude(a, b)

MathMax(a, b) == IF FCmp(a, b) >= 0 THEN a ELSE b
MathMin(a, b) == IF FCmp(a, b) <= 0 THEN a ELSE b

\* Math.round: the nearest integer, a tie going towards +Infinity
\* ip is the integer part of the magnitude and c compares its fraction with
\* one half
RoundHalfUp(s, ip, c) ==
    IF s = 0 THEN ip + (IF c >= 0 THEN 1 ELSE 0)
    ELSE -(ip + (IF c > 0 THEN 1 ELSE 0))
\* q = floor(x.m / 2^(-x.e)) being given
RoundFraction(x, q) ==
    RoundHalfUp(x.s, BToInt(q), BCmp(BLowBits(x.m, q, -x.e), BShl(<<1>>, -x.e - 1)))
MathRound(x) ==
    IF Len(x.m) = 0 THEN 0
    ELSE IF x.e >= 0 THEN (IF x.s = 1 THEN -1 ELSE 1) * BToInt(BShl(x.m, x.e))
    ELSE RoundFraction(x, BShr(x.m, -x.e))

\* a decimal literal with two fraction digits, h/100, as the parser reads it:
\* the binary64 nearest to the decimal value
Lit(h) == FDiv(FromInt(h), FromInt(100))

(***************************************************************************)
(* Constant tables (lines 12-18).  The *_LITERALS tables hold the decimal  *)
(* literals as written, in hundredths; the tables proper hold the numbers  *)
(* those literals denote.                                                  *)
(***************************************************************************)
STATES == <<"AL","AK","AZ","AR","CA","CO","CT","DE","FL","GA","HI","ID","IL","IN","IA","KS","KY","LA","ME","MD","MA","MI","MN","MS","MO","MT","NE","NV","NH","NJ","NM","NY","NC","ND","OH","OK","OR","PA","RI","SC","SD","TN","TX","UT","VT","VA","WA","WV","WI","WY","DC">>

AGE_FACTOR_LITERALS ==
    ("16-19" :> 185) @@ ("20-24" :> 155) @@ ("25-29" :> 120) @@
    ("30-64" :> 100) @@ ("65-74" :> 115) @@ ("75+" :> 135)
STATE_FACTOR_LITERALS ==
    ("MI" :> 145) @@ ("LA" :> 140) @@ ("FL" :> 135) @@ ("NY" :> 130) @@
    ("CA" :> 125) @@ ("NJ" :> 128) @@ ("TX" :> 120) @@ ("DEFAULT" :> 100)
VEHICLE_FACTOR_LITERALS ==
    ("sedan" :> 100) @@ ("suv" :> 110) @@ ("truck" :> 108) @@
    ("sports" :> 145) @@ ("luxury" :> 155) @@ ("electric" :> 115)
COVERAGE_FACTOR_LITERALS ==
    ("minimum" :> 65) @@ ("standard" :> 100) @@ ("full" :> 145)
HISTORY_FACTOR_LITERALS ==
    ("clean" :> 85) @@ ("minor" :> 100)

AGE_FACTOR == [k \in DOMAIN AGE_FACTOR_LITERALS |-> Lit(AGE_FACTOR_LITERALS[k])]
STATE_FACTOR == [k \in DOMAIN STATE_FACTOR_LITERALS |-> Lit(STATE_FACTOR_LITERALS[k])]
VEHICLE_FACTOR == [k \in DOMAIN VEHICLE_FACTOR_LITERALS |-> Lit(VEHICLE_FACTOR_LITERALS[k])]
COVERAGE_FACTOR_Transposed ==
    [k \in DOMAIN COVERAGE_FACTOR_LITERALS |->
        Lit(COVERAGE_FACTOR_LITERALS[CASE k = "minimum" -> "full" [] k = "full" -> "minimum" [] OTHER -> k])]
COVERAGE_FACTOR == [k \in DOMAIN COVERAGE_FACTOR_LITERALS |-> Lit(COVERAGE_FACTOR_LITERALS[k])]
HISTORY_FACTOR == [k \in DOMAIN HISTORY_FACTOR_LITERALS |-> Lit(HISTORY_FACTOR_LITERALS[k])]

\* the numeric literals of line 40
SAVINGS_FLOOR == Lit(70)
SAVINGS_CAP == Lit(100)
ONE == Lit(100)
MARKETING_SCALE == Lit(92)

(***************************************************************************)
(* The calculation, lines 32-44.                                           *)
(***************************************************************************)
\* STATE_FACTOR[values.state] || STATE_FACTOR.DEFAULT  (every entry of the
\* table is nonzero, so || takes the default exactly when the key is absent)
stateFactor_TexasDefault(state) ==
    STATE_FACTOR[IF state \in DOMAIN STATE_FACTOR_LITERALS THEN state ELSE "TX"]
stateFactor(state) ==
    STATE_FACTOR[IF state \in DOMAIN STATE_FACTOR_LITERALS THEN state ELSE "DEFAULT"]

riskAdjustment_NoHistory(ageFactor, stFactor, vehicleFactor, historyFactor) ==
    FMul(FMul(ageFactor, stFactor), vehicleFactor)
riskAdjustment(ageFactor, stFactor, vehicleFactor, historyFactor) ==
    FMul(FMul(FMul(ageFactor, stFactor), vehicleFactor), historyFactor)

baselineMultiplier_NoCoverage(risk, coverageFactor) == risk
baselineMultiplier(risk, coverageFactor) == FMul(risk, coverageFactor)

savingsMultiplier_NoFloor(baseline) ==
    MathMin(SAVINGS_CAP, FMul(FDiv(ONE, baseline), MARKETING_SCALE))
savingsMultiplier_NoCap(baseline) ==
    MathMax(SAVINGS_FLOOR, FMul(FDiv(ONE, baseline), MARKETING_SCALE))
savingsMultiplier_Floor75(baseline) ==
    MathMax(Lit(75), MathMin(SAVINGS_CAP, FMul(FDiv(ONE, baseline), MARKETING_SCALE)))
savingsMultiplier(baseline) ==
    MathMax(SAVINGS_FLOOR, MathMin(SAVINGS_CAP, FMul(FDiv(ONE, baseline), MARKETING_SCALE)))

MathFloor(x, nearest) == IF FCmp(FromInt(nearest), x) > 0 THEN nearest - 1 ELSE nearest
FloorOf(x) == MathFloor(x, MathRound(x))
estimatedNewPremium_Floor(currentPremium, multiplier) ==
    FloorOf(FMul(FromInt(currentPremium), multiplier))
estimatedNewPremium(currentPremium, multiplier) ==
    MathRound(FMul(FromInt(currentPremium), multiplier))

monthlySavings(currentPremium, newPremium) ==
    IF currentPremium - newPremium > 0 THEN currentPremium - newPremium ELSE 0

annualSavings_Weekly(monthly) == monthly * 52
annualSavings(monthly) == monthly * 12

\* lines 32-40 for the five categorical fields c, with the state factor given
FactorsOfBaseline(risk, coverageFactor, baseline) ==
    [riskAdjustment     |-> risk,
     coverageFactor     |-> coverageFactor,
     baselineMultiplier |-> baseline,
     savingsMultiplier  |-> savingsMultiplier(baseline)]
FactorsOfRisk(risk, coverageFactor) ==
    FactorsOfBaseline(risk, coverageFactor, baselineMultiplier(risk, coverageFactor))
Factors(c, stFactor) ==
    FactorsOfRisk(riskAdjustment(AGE_FACTOR[c.ageRange], stFactor,
                                 VEHICLE_FACTOR[c.vehicleType],
                                 HISTORY_FACTOR[c.drivingHistory]),
                  COVERAGE_FACTOR[c.coverageLevel])

\* lines 42-44 for a premium and the factors of lines 32-40
BreakdownOfSavings(f, newPremium, monthly) ==
    [riskAdjustment      |-> f.riskAdjustment,
     coverageFactor      |-> f.coverageFactor,
     baselineMultiplier  |-> f.baselineMultiplier,
     savingsMultiplier   |-> f.savingsMultiplier,
     estimatedNewPremium |-> newPremium,
     monthlySavings      |-> monthly,
     annualSavings       |-> annualSavings(monthly)]
BreakdownOfPremium(currentPremium, f, newPremium) ==
    BreakdownOfSavings(f, newPremium, monthlySavings(currentPremium, newPremium))
Breakdown(currentPremium, f) ==
    BreakdownOfPremium(currentPremium, f,
                       estimatedNewPremium(currentPremium, f.savingsMultiplier))

(***************************************************************************)
(* The form (lines 29-30, 64-113).                                         *)
(***************************************************************************)
\* how many of the trailing entries of STATES the model offers besides the
\* seven jurisdictions that have an entry in STATE_FACTOR
TailStates == 2
\* the small premiums the calculation is evaluated on: 0..MaxTypedPremium
MaxTypedPremium == 45

AgeRanges == DOMAIN AGE_FACTOR
VehicleTypes == DOMAIN VEHICLE_FACTOR
CoverageLevels == DOMAIN COVERAGE_FACTOR
DrivingHistories == DOMAIN HISTORY_FACTOR
ListedStates == {STATES[i] : i \in 1..Len(STATES)} \cap DOMAIN STATE_FACTOR
ModelStates ==
    ListedStates \cup {STATES[i] : i \in (Len(STATES) - TailStates + 1)..Len(STATES)}
\* besides the small ones, the initial premium (line 29) and two more of the
\* values the field's spinner offers (line 112: 50, 60, ..., 1000)
Premiums == (0..MaxTypedPremium) \cup {100, 180, 300}

SavingsInputs ==
    [ageRange : AgeRanges, state : ModelStates, vehicleType : VehicleTypes,
     coverageLevel : CoverageLevels, drivingHistory : DrivingHistories,
     currentPremium : Premiums]

\* lines 32-40 depend on the categorical fields only; they are evaluated
\* once for each combination
FactorsOf ==
    [a \in AgeRanges |-> [s \in ModelStates |-> [v \in VehicleTypes |->
        [c \in CoverageLevels |-> [h \in DrivingHistories |->
            Factors([ageRange |-> a, state |-> s, vehicleType |-> v,
                     coverageLevel |-> c, drivingHistory |-> h], stateFactor(s))]]]]]

\* what one render computes from the form state (lines 32-44)
Render(v) ==
    Breakdown(v.currentPremium,
              FactorsOf[v.ageRange][v.state][v.vehicleType][v.coverageLevel][v.drivingHistory])

\* parseInt(text): leading white space, a sign, an optional 0x, then the
\* longest run of digits of the radix; NaN when that run is empty
DIGITS == <<"0", "1", "2", "3", "4", "5", "6", "7", "8", "9", "a", "b", "c", "d", "e", "f">>
DigitValue(ch) == (CHOOSE i \in 1..Len(DIGITS) : DIGITS[i] = ch) - 1
IsDigit(ch, radix) == \E i \in 1..radix : DIGITS[i] = ch

RECURSIVE TrimStart(_)
TrimStart(s) == IF Len(s) > 0 /\ Head(s) = " " THEN TrimStart(Tail(s)) ELSE s

RECURSIVE DigitRun(_, _, _)
DigitRun(s, radix, acc) ==
    IF Len(s) > 0 /\ IsDigit(Head(s), radix)
    THEN DigitRun(Tail(s), radix, acc * radix + DigitValue(Head(s)))
    ELSE acc

parseInt(text) ==
    LET s1    == TrimStart(text)
        neg   == Len(s1) > 0 /\ Head(s1) = "-"
        s2    == IF Len(s1) > 0 /\ Head(s1) \in {"+", "-"} THEN Tail(s1) ELSE s1
        hex   == Len(s2) >= 2 /\ s2[1] = "0" /\ s2[2] = "x"
        radix == IF hex THEN 16 ELSE 10
        s3    == IF hex THEN SubSeq(s2, 3, Len(s2)) ELSE s2
        n     == DigitRun(s3, radix, 0)
    IN  IF Len(s3) > 0 /\ IsDigit(Head(s3), radix)
        THEN [nan |-> FALSE, n |-> IF neg THEN -n ELSE n]
        ELSE [nan |-> TRUE, n |-> 0]

\* parseInt(e.target.value) || 0  (NaN and 0 are the falsy results)
OrZero_KeepInitial(r) == IF r.nan THEN 180 ELSE r.n
OrZero(r) == IF r.nan \/ r.n = 0 THEN 0 ELSE r.n

\* texts the premium field can deliver to its change handler
PremiumTexts ==
    { <<>>, <<"a", "b", "c">>, <<"4", "5">>, <<"-", "1", "0">>, <<"1", "2", ".", "5">> }

InitialValues ==
    [ageRange |-> "30-64", state |-> "CA", vehicleType |-> "sedan",
     coverageLevel |-> "standard", drivingHistory |-> "clean", currentPremium |-> 180]

Init ==
    /\ values = InitialValues
    /\ premiumText = <<"1", "8", "0">>
    /\ breakdown = Render(values)
    /\ pc = "rendered"

\* setValues(prev => ({ ...prev, [field]: value })) and the render it causes
handleChange(field, value) ==
    /\ values' = [values EXCEPT ![field] = value]
    /\ breakdown' = Render(values')
    /\ pc' = "rendered"

ChangeAgeRange ==
    \E v \in AgeRanges : v # values.ageRange /\ handleChange("ageRange", v) /\ UNCHANGED premiumText
ChangeState ==
    \E v \in ModelStates : v # values.state /\ handleChange("state", v) /\ UNCHANGED premiumText
ChangeVehicleType ==
    \E v \in VehicleTypes : v # values.vehicleType /\ handleChange("vehicleType", v) /\ UNCHANGED premiumText
ChangeDrivingHistory ==
    \E v \in DrivingHistories : v # values.drivingHistory /\ handleChange("drivingHistory", v) /\ UNCHANGED premiumText
ChangeCoverageLevel ==
    \E v \in CoverageLevels : v # values.coverageLevel /\ handleChange("coverageLevel", v) /\ UNCHANGED premiumText
ChangePremiumTo(text) ==
    /\ premiumText' = text
    /\ handleChange("currentPremium", OrZero(parseInt(text)))
ChangePremium ==
    \E text \in PremiumTexts : text # premiumText /\ ChangePremiumTo(text)

Next ==
    \/ ChangeAgeRange
    \/ ChangeState
    \/ ChangeVehicleType
    \/ ChangeDrivingHistory
    \/ ChangeCoverageLevel
    \/ ChangePremium

Spec == Init /\ [][Next]_vars

(***************************************************************************)
(* The calculation on its own: any input of the declared domain, then one  *)
(* evaluation.                                                             *)
(***************************************************************************)
NotRendered == Breakdown(0, [riskAdjustment |-> FZero, coverageFactor |-> FZero,
                             baselineMultiplier |-> FZero, savingsMultiplier |-> FZero])

EstimateInit ==
    /\ values \in SavingsInputs
    /\ premiumText = <<>>
    /\ breakdown = NotRendered
    /\ pc = "input"

Evaluate ==
    /\ pc = "input"
    /\ breakdown' = Render(values)
    /\ pc' = "rendered"
    /\ UNCHANGED <<values, premiumText>>

EstimateNext == Evaluate

EstimateSpec == EstimateInit /\ [][EstimateNext]_vars

(***************************************************************************)
(* Exact arithmetic for stating the properties: the factors as the         *)
(* rationals their decimal literals denote, scaled to integers.            *)
(***************************************************************************)
BLe(a, b) == BCmp(a, b) <= 0

\* the numbers 0.70, 0.92, 1 and 1.0625
Point70 == Lit(70)
Point92 == Lit(92)
One == FromInt(1)
OneAndOneSixteenth == FDiv(FromInt(17), FromInt(16))

\* 10^10: the scale of a product of five factors given in hundredths
TenToTheTenth == BMul(BFromInt(100000), BFromInt(100000))

StateLiteral(state) ==
    IF state \in ListedStates THEN STATE_FACTOR_LITERALS[state] ELSE 100

\* baselineMultiplier * 10^10 as an exact integer
ExactBaseline(v) ==
    BMul(BFromInt(COVERAGE_FACTOR_LITERALS[v.coverageLevel]),
    BMul(BFromInt(HISTORY_FACTOR_LITERALS[v.drivingHistory]),
    BMul(BFromInt(VEHICLE_FACTOR_LITERALS[v.vehicleType]),
    BMul(BFromInt(StateLiteral(v.state)),
         BFromInt(AGE_FACTOR_LITERALS[v.ageRange])))))

\* the exact baseline of every combination of the categorical fields, and
\* on which side of the two clamping thresholds 0.92 / baselineMultiplier lies
ExactOf ==
    [a \in AgeRanges |-> [s \in ModelStates |-> [v \in VehicleTypes |->
        [c \in CoverageLevels |-> [h \in DrivingHistories |->
            LET b == ExactBaseline([ageRange |-> a, state |-> s, vehicleType |-> v,
                                    coverageLevel |-> c, drivingHistory |-> h])
            IN  [baseline |-> b,
                 floor    |-> BLe(BMul(BFromInt(92), TenToTheTenth), BMul(BFromInt(70), b)),
                 cap      |-> BLe(BMul(BFromInt(100), b), BMul(BFromInt(92), TenToTheTenth))]]]]]]
Exact(v) == ExactOf[v.ageRange][v.state][v.vehicleType][v.coverageLevel][v.drivingHistory]

\* 0.92 / baselineMultiplier <= 0.70
InFloorRegime(v) == Exact(v).floor
\* 0.92 / baselineMultiplier >= 1.00
InCapRegime(v) == Exact(v).cap

\* n is a nearest integer to p * 0.92 / baselineMultiplier, for p >= 0, n >= 0
NearestToUnclamped(n, p, v) ==
    LET b    == Exact(v).baseline
        nb2  == BMul(BFromInt(2 * n), b)
        num2 == BMul(BFromInt(2 * 92 * p), BMul(BFromInt(10000), BFromInt(10000)))
    IN  BLe(nb2, BAdd(num2, b)) /\ BLe(num2, BAdd(nb2, b))

\* lines 32-40 with the state factor 1.00, for every combination of the
\* other four categorical fields
FactorsAtOne ==
    [a \in AgeRanges |-> [v \in VehicleTypes |-> [c \in CoverageLevels |->
        [h \in DrivingHistories |->
            Factors([ageRange |-> a, vehicleType |-> v, coverageLevel |-> c,
                     drivingHistory |-> h], Lit(100))]]]]

Rendered == pc = "rendered"

Scenario1 ==
    [ageRange |-> "30-64", state |-> "CA", vehicleType |-> "sedan",
     coverageLevel |-> "standard", drivingHistory |-> "clean", currentPremium |-> 180]
Scenario2 ==
    [ageRange |-> "16-19", state |-> "MI", vehicleType |-> "sports",
     coverageLevel |-> "full", drivingHistory |-> "minor", currentPremium |-> 300]
Scenario3 ==
    [ageRange |-> "30-64", state |-> "WY", vehicleType |-> "sedan",
     coverageLevel |-> "minimum", drivingHistory |-> "clean", currentPremium |-> 100]

\* C1: for every valid input the computed savingsMultiplier lies in
\* [0.70, 1.00].
C1_MultiplierInRange ==
    Rendered =>
        /\ FCmp(Point70, breakdown.savingsMultiplier) <= 0
        /\ FCmp(breakdown.savingsMultiplier, One) <= 0

\* an input whose unclamped multiplier (about 0.163) the floor raises
C1_Witness ==
    /\ Rendered
    /\ values = Scenario2
    /\ FCmp(FMul(FDiv(One, breakdown.baselineMultiplier), Point92), Point70) < 0
    /\ breakdown.savingsMultiplier = Point70

\* C2: for every valid input with a non-negative premium, monthlySavings >= 0
\* and estimatedNewPremium <= currentPremium; the difference currentPremium -
\* estimatedNewPremium is non-negative already, so the max with 0 changes
\* nothing.
C2_NeverAnIncrease ==
    Rendered =>
        /\ breakdown.monthlySavings >= 0
        /\ breakdown.estimatedNewPremium <= values.currentPremium
        /\ breakdown.monthlySavings = values.currentPremium - breakdown.estimatedNewPremium

C2_Witness ==
    /\ Rendered
    /\ values.currentPremium = 45
    /\ values.coverageLevel = "minimum"
    /\ values.state = "WY"
    /\ breakdown.estimatedNewPremium = 45
    /\ breakdown.monthlySavings = 0

\* coverage levels whose factor is larger than that of level c
HigherCoverage(c) ==
    {d \in CoverageLevels : COVERAGE_FACTOR_LITERALS[d] > COVERAGE_FACTOR_LITERALS[c]}

\* C3 as stated: with the other fields fixed, moving coverageLevel
\* minimum -> standard -> full never decreases estimatedNewPremium.
C3_Original ==
    Rendered =>
        \A d \in HigherCoverage(values.coverageLevel) :
            Render([values EXCEPT !.coverageLevel = d]).estimatedNewPremium
                >= breakdown.estimatedNewPremium

\* C3, amended: with the other fields fixed, moving coverageLevel
\* minimum -> standard -> full never increases estimatedNewPremium.
C3_CoverageNeverIncreases ==
    Rendered =>
        \A d \in HigherCoverage(values.coverageLevel) :
            Render([values EXCEPT !.coverageLevel = d]).estimatedNewPremium
                <= breakdown.estimatedNewPremium

\* the first scenario at minimum coverage: 180, against 156 at standard and
\* 126 at full
C3_Witness ==
    /\ Rendered
    /\ values = [Scenario1 EXCEPT !.coverageLevel = "minimum"]
    /\ breakdown.estimatedNewPremium = 180
    /\ Render([values EXCEPT !.coverageLevel = "standard"]).estimatedNewPremium = 156
    /\ Render([values EXCEPT !.coverageLevel = "full"]).estimatedNewPremium = 126

\* C4 as stated: for every valid input, 0.70 * currentPremium <=
\* estimatedNewPremium <= currentPremium.
C4_Original ==
    Rendered =>
        /\ 70 * values.currentPremium <= 100 * breakdown.estimatedNewPremium
        /\ breakdown.estimatedNewPremium <= values.currentPremium

\* C4, amended: for every valid input, 0.70 * currentPremium - 0.5 <=
\* estimatedNewPremium <= currentPremium (so monthlySavings <= 0.30 *
\* currentPremium + 0.5); the bound without the half unit holds when
\* currentPremium is a multiple of 10.
C4_WithinRoundingOfSeventyPercent ==
    Rendered =>
        /\ 70 * values.currentPremium - 50 <= 100 * breakdown.estimatedNewPremium
        /\ breakdown.estimatedNewPremium <= values.currentPremium
        /\ 100 * breakdown.monthlySavings <= 30 * values.currentPremium + 50
        /\ values.currentPremium % 10 = 0 =>
               70 * values.currentPremium <= 100 * breakdown.estimatedNewPremium

\* a premium of 2 at the floor: 1.4 rounds to 1
C4_Witness ==
    /\ Rendered
    /\ values.currentPremium = 2
    /\ breakdown.savingsMultiplier = Point70
    /\ breakdown.estimatedNewPremium = 1

C6_FloorRegime ==
    (Rendered /\ InFloorRegime(values)) =>
        /\ breakdown.savingsMultiplier = Point70
        /\ breakdown.estimatedNewPremium = MathRound(FMul(FromInt(values.currentPremium), Point70))
        /\ 100 * breakdown.estimatedNewPremium <= 70 * values.currentPremium + 50
        /\ 70 * values.currentPremium <= 100 * breakdown.estimatedNewPremium + 50
        /\ values = Scenario2 =>
              /\ breakdown.estimatedNewPremium = 210
              /\ breakdown.monthlySavings = 90
              /\ breakdown.annualSavings = 1080

C6_Witness ==
    /\ Rendered
    /\ values = Scenario2
    /\ InFloorRegime(values)
    /\ breakdown.estimatedNewPremium = 210

\* C7: whenever 0.92 / baselineMultiplier >= 1.00, savingsMultiplier is
\* exactly 1.00, estimatedNewPremium = currentPremium and both savings are 0;
\* the third scenario gives 100, 0 and 0.
C7_CapRegime ==
    (Rendered /\ InCapRegime(values)) =>
        /\ breakdown.savingsMultiplier = One
        /\ breakdown.estimatedNewPremium = values.currentPremium
        /\ breakdown.monthlySavings = 0
        /\ breakdown.annualSavings = 0
        /\ values = Scenario3 => breakdown.estimatedNewPremium = 100

C7_Witness ==
    /\ Rendered
    /\ values = Scenario3
    /\ InCapRegime(values)
    /\ breakdown.estimatedNewPremium = 100
    /\ breakdown.annualSavings = 0

\* C8: whenever 0.70 < 0.92 / baselineMultiplier < 1.00, savingsMultiplier =
\* 0.92 / baselineMultiplier and estimatedNewPremium is the nearest integer to
\* currentPremium * 0.92 / baselineMultiplier; the first scenario, which is
\* the form's initial state, gives riskAdjustment = baselineMultiplier =
\* 1.0625 and 156, 24, 288.
C8_UnclampedRegime ==
    /\ InitialValues = Scenario1
    /\ (Rendered /\ ~InFloorRegime(values) /\ ~InCapRegime(values)) =>
        /\ breakdown.savingsMultiplier =
               FMul(FDiv(One, breakdown.baselineMultiplier), Point92)
        /\ NearestToUnclamped(breakdown.estimatedNewPremium, values.currentPremium, values)
        /\ values = Scenario1 =>
              /\ breakdown.riskAdjustment = OneAndOneSixteenth
              /\ breakdown.baselineMultiplier = OneAndOneSixteenth
              /\ breakdown.estimatedNewPremium = 156
              /\ breakdown.monthlySavings = 24
              /\ breakdown.annualSavings = 288

C8_Witness ==
    /\ Rendered
    /\ values = Scenario1
    /\ ~InFloorRegime(values)
    /\ ~InCapRegime(values)
    /\ breakdown.estimatedNewPremium = 156

\* C9: in every state reachable from the form's initial state by change
\* events, annualSavings = monthlySavings * 12 and the breakdown shown is the
\* one computed from the current six field values.
C9_AnnualIsTwelveMonths ==
    /\ breakdown.annualSavings = breakdown.monthlySavings * 12
    /\ breakdown = Render(values)

\* several events away from the initial state, with savings to show
C9_Witness ==
    /\ values.state = "MI"
    /\ values.ageRange = "75+"
    /\ values.drivingHistory = "minor"
    /\ values.currentPremium = 45
    /\ breakdown.monthlySavings = 14
    /\ breakdown.annualSavings = 168

NonNumericTexts == {t \in PremiumTexts : parseInt(t).nan}

\* C10: a change event of the premium field whose text does not parse as an
\* integer stores currentPremium = 0, leaves the other five fields as they
\* were, and the render shows estimatedNewPremium = monthlySavings =
\* annualSavings = 0.
C10_NonNumericPremium ==
    [][\A t \in NonNumericTexts :
          ChangePremiumTo(t) =>
              /\ values' = [values EXCEPT !.currentPremium = 0]
              /\ breakdown'.estimatedNewPremium = 0
              /\ breakdown'.monthlySavings = 0
              /\ breakdown'.annualSavings = 0]_vars

C10_Witness ==
    /\ premiumText = <<"a", "b", "c">>
    /\ values.currentPremium = 0
    /\ values.coverageLevel = "full"
    /\ values.state = "MI"
    /\ breakdown.estimatedNewPremium = 0
    /\ breakdown.annualSavings = 0
====
